---------------------------- MODULE Spec2Model ----------------------------
(***************************************************************************)
(* A model of the two sharded resource managers of the kernel:            *)
(*   - the buffer cache of kernel/bio.c (binit, bget, bread, brelse,      *)
(*     bpin, bunpin), a hash table of HASHBUCKET chains of struct buf     *)
(*     guarded by one spinlock per bucket, a global spinlock hlock and    *)
(*     one sleeplock per buf;                                             *)
(*   - the physical page allocator of kernel/kalloc.c (freerange, kfree,  *)
(*     kalloc), one free list and one spinlock per CPU.                   *)
(* A step of the model is one spinlock/sleeplock acquisition (which may   *)
(* block), or the straight-line code up to and including the next release *)
(* of a lock, or up to the next acquisition: no step releases two locks.  *)
(***************************************************************************)
EXTENDS Integers, Sequences, FiniteSets

\* ------------------------------------------------------------------------
\* Sizes.  HASHBUCKET is the source's.  NBUF and NCPU (param.h) are scaled
\* down, as is the number of pages between end and PHYSTOP: NFrames on the
\* machine whose CPUs call the allocator in any interleaving, NFramesSeq on
\* the machine whose calls run one at a time.  NPROC callers use the cache,
\* the clock ticks MaxTicks times, a buf is pinned at most MaxPins times at
\* once and at most MaxTwice kfree calls are passed a page that the caller
\* does not own.
\* ------------------------------------------------------------------------
HASHBUCKET == 17

\* A uint of the code is 32 bits wide and so is an integer of the model
\* checker, which is signed: the uint n is kept as the integer with the same
\* 32 bits, n itself below 2^31 and n - 2^32 from 2^31 on.  Uint(hi, lo) is
\* the uint whose upper and lower 16 bits are hi and lo.
Uint(hi, lo) == (IF hi >= 32768 THEN hi - 65536 ELSE hi) * 65536 + lo

\* __UINT32_MAX__ of bio.c, line 114: 0xffffffff = 4294967295
UINT32_MAX == Uint(65535, 65535)

NBUF == 2

NPROC == 2

MaxTicks == 1

MaxPins == 1

NCPU == 3

NFrames == 4

NFramesSeq == 5

MaxTwice == 1

\* PGSIZE of riscv.h: "Allocates whole 4096-byte pages"
PGSIZE == 4096

\* The null pointer
NULL == 0

\* The holder of a lock that is not held
NoProc == NULL

Slots == 1..NBUF

Buckets == 0..(HASHBUCKET - 1)

Procs == 1..NPROC

CPUs == 0..(NCPU - 1)

\* The holder of a kmem lock that is not held: no CPU's id
NoCpu == NCPU

\* What memset leaves in the first word of a page that is not in a free
\* list: no page's address.
JUNK == NULL - 1

\* The (dev, blockno) pairs the callers ask for: <<0,0>> is the identity the
\* unused bufs carry after binit and hashes to bucket 0, as <<1,16>> does;
\* <<1,15>> hashes to bucket 16, the last one scanned before bucket 0.
Keys == { <<0, 0>>, <<1, 16>>, <<1, 15>> }

VARIABLES
  \* ---- buffer cache (bio.c)
  ticks,      \* extern uint ticks
  dev,        \* buf.dev      : Slots -> uint
  blockno,    \* buf.blockno  : Slots -> uint
  valid,      \* buf.valid    : Slots -> 0..1
  refcnt,     \* buf.refcnt   : Slots -> uint
  tick,       \* buf.tick     : Slots -> uint
  next,       \* buf.next     : Slots -> Slots \cup {NULL}
  slock,      \* buf.lock (sleeplock): Slots -> holder or NoProc
  head,       \* bhash.head   : Buckets -> Slots \cup {NULL}
  lock,       \* bhash.lock   : Buckets -> holder or NoProc
  hlock,      \* bhash.hlock  : holder or NoProc
  panicked,   \* panic() was called
  pc,         \* each caller's position in the code
  rdev,       \* bget's argument dev
  rblockno,   \* bget's argument blockno
  bucket,     \* the local variable bucket of bget / brelse / bpin / bunpin
  idx,        \* the loop counter i of bget
  b,          \* the local pointer b (min_buf once a victim is chosen)
  held,       \* the buf the caller got from bread and has not released
  pins,       \* bpin calls not yet undone by a bunpin call: Slots -> Nat
  stable,     \* per bget call in progress: the bufs whose reference count
              \* has been 0 ever since the call began
  dropped,    \* per buf with reference count 0: the function that dropped
              \* it to 0, the clock at that moment and buf.tick before it
  \* ---- page allocator (kalloc.c)
  kfreelist,  \* kmem[i].freelist : CPUs -> page address or NULL
  knext,      \* run.next of each page : address -> address, NULL or JUNK
  klock,      \* kmem[i].lock : CPUs -> holder or NoCpu
  kpc,        \* each CPU's position in the code
  ki,         \* the loop counter i of kalloc
  kr,         \* the local pointer r of kalloc / kfree
  kinited,    \* kinit has called freerange
  kalloced,   \* pages returned by kalloc and not yet passed to kfree
  ktwice,     \* kfree calls on a page that its caller did not own
  kseq,       \* the calls of the allocator are run one at a time
  kpre,       \* with kseq: the free lists when the kalloc call in progress started
  kframes     \* the whole pages between end and PHYSTOP on the machine

biovars == << ticks, dev, blockno, valid, refcnt, tick, next, slock, head,
              lock, hlock, panicked, pc, rdev, rblockno, bucket, idx, b,
              held, pins, stable, dropped >>

kvars == << kfreelist, knext, klock, kpc, ki, kr, kinited, kalloced >>

kall == << kvars, ktwice, kseq, kpre, kframes >>

\* The cache's variables but panicked, which the allocator shares.
biostate == << ticks, dev, blockno, valid, refcnt, tick, next, slock, head,
               lock, hlock, pc, rdev, rblockno, bucket, idx, b, held, pins,
               stable, dropped >>

vars == << biovars, kall >>

\* ------------------------------------------------------------------------
\* bio.c
\* ------------------------------------------------------------------------
\* The upper and the lower 16 bits of a uint.
UHi(n) == IF n >= 0 THEN n \div 65536 ELSE (n \div 65536) + 65536

ULo(n) == n % 65536

\* m + n on two uints: the sum modulo 2^32, added half by half.
UAdd(m, n) ==
  LET lo == ULo(m) + ULo(n)
      hi == UHi(m) + UHi(n) + (lo \div 65536)
  IN  Uint(hi % 65536, lo % 65536)

\* n % k on a uint and a small positive k
UMod(n, k) == ((UHi(n) % k) * (65536 % k) + ULo(n)) % k

\* line 27: (((dev) + (blockno)) % HASHBUCKET), on uints
HASH(d, bn) == UMod(UAdd(d, bn), HASHBUCKET)

\* ++ and -- on a uint: 0xffffffff + 1 = 0 and 0 - 1 = 0xffffffff come out
\* of the signed sum; 0x7fffffff + 1 = 0x80000000 and back are spelled out.
UInc(n) == IF n = Uint(32767, 65535) THEN Uint(32768, 0) ELSE n + 1

UDec(n) == IF n = Uint(32768, 0) THEN Uint(32767, 65535) ELSE n - 1

\* m < n on two uints
ULess(m, n) == IF (m < 0) = (n < 0) THEN m < n ELSE n < 0

\* A hit that forgets b->refcnt++.
RefIncForgotten(n) == n

\* b->refcnt++ (lines 96, 119, 215) and b->refcnt-- (lines 201, 223)
RefInc(n) == UInc(n)

RefDec(n) == UDec(n)

\* A buf whose reference count is not 0, or has never dropped to 0.
NotDropped == [by |-> "none", at |-> 0, was |-> 0]

\* binit, run when the clock read t: every buf is chained after its
\* predecessor in the array, the whole array hangs off bucket 0; dev,
\* blockno, valid and refcnt are the zeroes of static storage.
BinitAt(t) ==
  /\ dev = [s \in Slots |-> 0]
  /\ blockno = [s \in Slots |-> 0]
  /\ valid = [s \in Slots |-> 0]
  /\ refcnt = [s \in Slots |-> 0]
  /\ tick = [s \in Slots |-> t]
  /\ next = [s \in Slots |-> IF s < NBUF THEN s + 1 ELSE NULL]
  /\ slock = [s \in Slots |-> NoProc]
  /\ head = [k \in Buckets |-> IF k = 0 THEN 1 ELSE NULL]
  /\ lock = [k \in Buckets |-> NoProc]
  /\ hlock = NoProc
  /\ panicked = FALSE
  /\ pc = [p \in Procs |-> "ready"]
  /\ rdev = [p \in Procs |-> 0]
  /\ rblockno = [p \in Procs |-> 0]
  /\ bucket = [p \in Procs |-> 0]
  /\ idx = [p \in Procs |-> 0]
  /\ b = [p \in Procs |-> NULL]
  /\ held = [p \in Procs |-> NULL]
  /\ pins = [s \in Slots |-> 0]
  /\ stable = [p \in Procs |-> {}]
  /\ dropped = [s \in Slots |-> NotDropped]

\* binit at boot, when the clock reads 0.
BioInit == ticks = 0 /\ BinitAt(ticks)

\* The cache is as binit left it at boot and the clock is MaxTicks ticks
\* from the largest uint.
BioInitLate == ticks = UINT32_MAX - MaxTicks /\ BinitAt(0)

\* The reference count of buf s is n after function f decremented it: when
\* it reached 0, f, the clock and the buf's timestamp before the call.
Dropped(f, s, n) ==
  IF n = 0
  THEN [dropped EXCEPT ![s] = [by |-> f, at |-> ticks, was |-> tick[s]]]
  ELSE dropped

\* The bufs with reference count 0.
Unreferenced == { s \in Slots : refcnt[s] = 0 }

\* The reference count of buf s leaves 0 and the bget call of caller p has
\* its buf: s is no longer unreferenced for the calls in progress, and the
\* call of p is over.
Referenced(p, s) ==
  [q \in Procs |-> IF q = p THEN {} ELSE stable[q] \ {s}]

new_bucket(p) == HASH(rdev[p], rblockno[p])

\* The chain of bucket k, as the sequence of bufs reached from head[k]
\* through next (cut at NBUF + 1 links, so that a cycle still has a value).
RECURSIVE Walk(_, _)
Walk(s, fuel) ==
  IF s = NULL \/ fuel = 0 THEN << >> ELSE << s >> \o Walk(next[s], fuel - 1)

Chain(k) == Walk(head[k], NBUF + 1)

\* bget, lines 92-102: the first buf of the chain with the wanted identity.
RECURSIVE FastScan(_, _, _)
FastScan(s, d, bn) ==
  IF s = NULL THEN NULL
  ELSE IF dev[s] = d /\ blockno[s] = bn THEN s
  ELSE FastScan(next[s], d, bn)

\* A slow path that does not look again for the block.
RecheckNever(bk, nb, s, d, bn) == FALSE

\* bget, line 117: the re-check of the slow path.
Recheck(bk, nb, s, d, bn) == bk = nb /\ dev[s] = d /\ blockno[s] = bn

\* A candidate test that forgets the reference count.
EligibleAnyRef(s, minstamp) == ULess(tick[s], minstamp)

\* bget, line 126: a buf that replaces the bucket's candidate so far.
Eligible(s, minstamp) == refcnt[s] = 0 /\ ULess(tick[s], minstamp)

\* bget, lines 113-134: the scan of one bucket under its lock.  The result
\* names the hit (or NULL) and, without a hit, min_buf and min_buf_pre.
RECURSIVE ScanLoop(_, _, _, _, _, _, _)
ScanLoop(bk, nb, d, bn, cur, b_pre, st) ==
  IF cur = NULL THEN [hit |-> NULL, min_buf |-> st.min_buf,
                      min_buf_pre |-> st.min_buf_pre]
  ELSE IF Recheck(bk, nb, cur, d, bn)
       THEN [hit |-> cur, min_buf |-> NULL, min_buf_pre |-> NULL]
  ELSE ScanLoop(bk, nb, d, bn, next[cur], cur,
                IF Eligible(cur, st.minstamp)
                THEN [min_buf |-> cur, min_buf_pre |-> b_pre,
                      minstamp |-> tick[cur]]
                ELSE st)

ScanBucket(bk, nb, d, bn) ==
  ScanLoop(bk, nb, d, bn, head[bk], NULL,
           [min_buf |-> NULL, min_buf_pre |-> NULL, minstamp |-> UINT32_MAX])

\* A migration that leaves the predecessor pointing at the buf it moves.
UnlinkNextForgotten(min_buf, min_buf_pre) == next

\* bget, lines 144-147: min_buf leaves the chain of bucket bk.
UnlinkNext(min_buf, min_buf_pre) ==
  IF min_buf_pre # NULL THEN [next EXCEPT ![min_buf_pre] = next[min_buf]]
  ELSE next

\* bget, lines 144-147: the head of bucket bk when min_buf leaves its chain.
UnlinkHead(bk, min_buf, min_buf_pre) ==
  IF min_buf_pre # NULL THEN head ELSE [head EXCEPT ![bk] = next[min_buf]]

\* ---- bread / bget ----

\* bread(dev, blockno) is called; bget computes new_bucket (line 87).
BreadCall(p, d, bn) ==
  /\ ~panicked
  /\ pc[p] = "ready"
  /\ held[p] = NULL
  /\ rdev' = [rdev EXCEPT ![p] = d]
  /\ rblockno' = [rblockno EXCEPT ![p] = bn]
  /\ pc' = [pc EXCEPT ![p] = "bget_acq"]
  /\ stable' = [stable EXCEPT ![p] = Unreferenced]
  /\ UNCHANGED dropped
  /\ UNCHANGED << ticks, dev, blockno, valid, refcnt, tick, next, slock,
                  head, lock, hlock, panicked, bucket, idx, b, held, pins >>
  /\ UNCHANGED kall

\* line 88: acquire(&bhash.lock[new_bucket])
BgetAcquire(p) ==
  /\ ~panicked
  /\ pc[p] = "bget_acq"
  /\ lock[new_bucket(p)] = NoProc
  /\ lock' = [lock EXCEPT ![new_bucket(p)] = p]
  /\ pc' = [pc EXCEPT ![p] = "bget_fast"]
  /\ UNCHANGED << ticks, dev, blockno, valid, refcnt, tick, next, slock,
                  head, hlock, panicked, rdev, rblockno, bucket, idx, b,
                  held, pins >>
  /\ UNCHANGED << stable, dropped, kall >>

\* A fast path that keeps the bucket lock when it misses.
BgetFastKeepsLock(p) ==
  /\ ~panicked
  /\ pc[p] = "bget_fast"
  /\ LET hit == FastScan(head[new_bucket(p)], rdev[p], rblockno[p]) IN
       IF hit # NULL
       THEN /\ refcnt' = [refcnt EXCEPT ![hit] = RefInc(refcnt[hit])]
            /\ tick' = [tick EXCEPT ![hit] = ticks]
            /\ b' = [b EXCEPT ![p] = hit]
            /\ pc' = [pc EXCEPT ![p] = "bget_sleep"]
            /\ stable' = Referenced(p, hit)
            /\ dropped' = [dropped EXCEPT ![hit] = NotDropped]
            /\ lock' = [lock EXCEPT ![new_bucket(p)] = NoProc]
       ELSE /\ pc' = [pc EXCEPT ![p] = "bget_hacq"]
            /\ UNCHANGED << refcnt, tick, b, stable, dropped, lock >>
  /\ UNCHANGED << ticks, dev, blockno, valid, next, slock, head, hlock,
                  panicked, rdev, rblockno, bucket, idx, held, pins >>
  /\ UNCHANGED kall

\* lines 92-103: the fast path, up to the release of the bucket lock.
BgetFast(p) ==
  /\ ~panicked
  /\ pc[p] = "bget_fast"
  /\ LET hit == FastScan(head[new_bucket(p)], rdev[p], rblockno[p]) IN
       IF hit # NULL
       THEN /\ refcnt' = [refcnt EXCEPT ![hit] = RefInc(refcnt[hit])]
            /\ tick' = [tick EXCEPT ![hit] = ticks]
            /\ b' = [b EXCEPT ![p] = hit]
            /\ pc' = [pc EXCEPT ![p] = "bget_sleep"]
            /\ stable' = Referenced(p, hit)
            /\ dropped' = [dropped EXCEPT ![hit] = NotDropped]
       ELSE /\ pc' = [pc EXCEPT ![p] = "bget_hacq"]
            /\ UNCHANGED << refcnt, tick, b, stable, dropped >>
  /\ lock' = [lock EXCEPT ![new_bucket(p)] = NoProc]
  /\ UNCHANGED << ticks, dev, blockno, valid, next, slock, head, hlock,
                  panicked, rdev, rblockno, bucket, idx, held, pins >>
  /\ UNCHANGED kall

\* lines 105-109: acquire(&bhash.hlock); bucket = new_bucket; i = 0
BgetHlock(p) ==
  /\ ~panicked
  /\ pc[p] = "bget_hacq"
  /\ hlock = NoProc
  /\ hlock' = p
  /\ bucket' = [bucket EXCEPT ![p] = new_bucket(p)]
  /\ idx' = [idx EXCEPT ![p] = 0]
  /\ pc' = [pc EXCEPT ![p] = "bget_bacq"]
  /\ UNCHANGED << ticks, dev, blockno, valid, refcnt, tick, next, slock,
                  head, lock, panicked, rdev, rblockno, b, held, pins >>
  /\ UNCHANGED << stable, dropped, kall >>

\* line 111: acquire(&bhash.lock[bucket])
BgetBucketAcquire(p) ==
  /\ ~panicked
  /\ pc[p] = "bget_bacq"
  /\ lock[bucket[p]] = NoProc
  /\ lock' = [lock EXCEPT ![bucket[p]] = p]
  /\ pc' = [pc EXCEPT ![p] = "bget_scan"]
  /\ UNCHANGED << ticks, dev, blockno, valid, refcnt, tick, next, slock,
                  head, hlock, panicked, rdev, rblockno, bucket, idx, b,
                  held, pins >>
  /\ UNCHANGED << stable, dropped, kall >>

\* lines 113-121: the re-check finds the block in the target bucket and
\* counts the caller in; the bucket lock is released, hlock is still held.
BgetScanHit(p) ==
  /\ ~panicked
  /\ pc[p] = "bget_scan"
  /\ LET r == ScanBucket(bucket[p], new_bucket(p), rdev[p], rblockno[p]) IN
       /\ r.hit # NULL
       /\ refcnt' = [refcnt EXCEPT ![r.hit] = RefInc(refcnt[r.hit])]
       /\ tick' = [tick EXCEPT ![r.hit] = ticks]
       /\ b' = [b EXCEPT ![p] = r.hit]
       /\ stable' = Referenced(p, r.hit)
       /\ dropped' = [dropped EXCEPT ![r.hit] = NotDropped]
  /\ lock' = [lock EXCEPT ![bucket[p]] = NoProc]
  /\ pc' = [pc EXCEPT ![p] = "bget_hit_hrel"]
  /\ bucket' = [bucket EXCEPT ![p] = 0]
  /\ idx' = [idx EXCEPT ![p] = 0]
  /\ UNCHANGED << ticks, dev, blockno, valid, next, slock, head, hlock,
                  panicked, rdev, rblockno, held, pins >>
  /\ UNCHANGED kall

\* A re-check hit that goes to sleep without releasing hlock.
BgetHitReleaseForgotten(p) ==
  /\ ~panicked
  /\ pc[p] = "bget_hit_hrel"
  /\ pc' = [pc EXCEPT ![p] = "bget_sleep"]
  /\ UNCHANGED << ticks, dev, blockno, valid, refcnt, tick, next, slock,
                  head, lock, hlock, panicked, rdev, rblockno, bucket, idx,
                  b, held, pins >>
  /\ UNCHANGED << stable, dropped, kall >>

\* line 122: release(&bhash.hlock) after a re-check hit
BgetHitRelease(p) ==
  /\ ~panicked
  /\ pc[p] = "bget_hit_hrel"
  /\ hlock' = NoProc
  /\ pc' = [pc EXCEPT ![p] = "bget_sleep"]
  /\ UNCHANGED << ticks, dev, blockno, valid, refcnt, tick, next, slock,
                  head, lock, panicked, rdev, rblockno, bucket, idx, b,
                  held, pins >>
  /\ UNCHANGED << stable, dropped, kall >>

\* lines 135-148, 154: the bucket holds a candidate, which is recycled.  In
\* the target bucket it stays where it is and the bucket lock is released
\* (line 154); in another bucket it is unlinked and that bucket's lock is
\* released (line 148).  hlock is still held.
BgetScanEvict(p) ==
  /\ ~panicked
  /\ pc[p] = "bget_scan"
  /\ LET r == ScanBucket(bucket[p], new_bucket(p), rdev[p], rblockno[p])
         m == r.min_buf
     IN
       /\ r.hit = NULL
       /\ m # NULL
       /\ dev' = [dev EXCEPT ![m] = rdev[p]]
       /\ blockno' = [blockno EXCEPT ![m] = rblockno[p]]
       /\ valid' = [valid EXCEPT ![m] = 0]
       /\ refcnt' = [refcnt EXCEPT ![m] = 1]
       /\ tick' = [tick EXCEPT ![m] = ticks]
       /\ b' = [b EXCEPT ![p] = m]
       /\ stable' = Referenced(p, m)
       /\ dropped' = [dropped EXCEPT ![m] = NotDropped]
       /\ IF bucket[p] # new_bucket(p)
          THEN /\ next' = UnlinkNext(m, r.min_buf_pre)
               /\ head' = UnlinkHead(bucket[p], m, r.min_buf_pre)
               /\ lock' = [lock EXCEPT ![bucket[p]] = NoProc]
               /\ pc' = [pc EXCEPT ![p] = "bget_macq"]
          ELSE /\ lock' = [lock EXCEPT ![new_bucket(p)] = NoProc]
               /\ pc' = [pc EXCEPT ![p] = "bget_hrel"]
               /\ UNCHANGED << next, head >>
  /\ bucket' = [bucket EXCEPT ![p] = 0]
  /\ idx' = [idx EXCEPT ![p] = 0]
  /\ UNCHANGED << ticks, slock, hlock, panicked, rdev, rblockno, held,
                  pins >>
  /\ UNCHANGED kall

\* lines 160-163, 109: the bucket holds no candidate and its lock is
\* released; on to the next bucket, or out of the loop after HASHBUCKET
\* buckets.
BgetScanNext(p) ==
  /\ ~panicked
  /\ pc[p] = "bget_scan"
  /\ LET r == ScanBucket(bucket[p], new_bucket(p), rdev[p], rblockno[p]) IN
       /\ r.hit = NULL
       /\ r.min_buf = NULL
  /\ lock' = [lock EXCEPT ![bucket[p]] = NoProc]
  /\ bucket' = [bucket EXCEPT
                  ![p] = IF bucket[p] + 1 = HASHBUCKET THEN 0
                         ELSE bucket[p] + 1]
  /\ idx' = [idx EXCEPT ![p] = idx[p] + 1]
  /\ pc' = [pc EXCEPT ![p] = IF idx[p] + 1 < HASHBUCKET THEN "bget_bacq"
                             ELSE "bget_panic"]
  /\ UNCHANGED << ticks, dev, blockno, valid, refcnt, tick, next, slock,
                  head, hlock, panicked, rdev, rblockno, b, held, pins >>
  /\ UNCHANGED << stable, dropped, kall >>

\* line 164: panic("ind: no buffers"), hlock still held
BgetPanic(p) ==
  /\ ~panicked
  /\ pc[p] = "bget_panic"
  /\ pc' = [pc EXCEPT ![p] = "panic"]
  /\ panicked' = TRUE
  /\ UNCHANGED << ticks, dev, blockno, valid, refcnt, tick, next, slock,
                  head, lock, hlock, rdev, rblockno, bucket, idx, b, held,
                  pins >>
  /\ UNCHANGED << stable, dropped, kall >>

\* line 150: acquire(&bhash.lock[new_bucket]), the victim's bucket released
BgetMoveAcquire(p) ==
  /\ ~panicked
  /\ pc[p] = "bget_macq"
  /\ lock[new_bucket(p)] = NoProc
  /\ lock' = [lock EXCEPT ![new_bucket(p)] = p]
  /\ pc' = [pc EXCEPT ![p] = "bget_link"]
  /\ UNCHANGED << ticks, dev, blockno, valid, refcnt, tick, next, slock,
                  head, hlock, panicked, rdev, rblockno, bucket, idx, b,
                  held, pins >>
  /\ UNCHANGED << stable, dropped, kall >>

\* lines 151-154: min_buf becomes the head of the target bucket's chain and
\* the target bucket's lock is released; hlock is still held.
BgetLink(p) ==
  /\ ~panicked
  /\ pc[p] = "bget_link"
  /\ next' = [next EXCEPT ![b[p]] = head[new_bucket(p)]]
  /\ head' = [head EXCEPT ![new_bucket(p)] = b[p]]
  /\ lock' = [lock EXCEPT ![new_bucket(p)] = NoProc]
  /\ pc' = [pc EXCEPT ![p] = "bget_hrel"]
  /\ UNCHANGED << ticks, dev, blockno, valid, refcnt, tick, slock, hlock,
                  panicked, rdev, rblockno, bucket, idx, b, held, pins >>
  /\ UNCHANGED << stable, dropped, kall >>

\* line 155: release(&bhash.hlock) after an eviction
BgetEvictRelease(p) ==
  /\ ~panicked
  /\ pc[p] = "bget_hrel"
  /\ hlock' = NoProc
  /\ pc' = [pc EXCEPT ![p] = "bget_esleep"]
  /\ UNCHANGED << ticks, dev, blockno, valid, refcnt, tick, next, slock,
                  head, lock, panicked, rdev, rblockno, bucket, idx, b,
                  held, pins >>
  /\ UNCHANGED << stable, dropped, kall >>

\* A return that takes the sleeplock without waiting for its holder.
BgetSleepNoWait(p) ==
  /\ ~panicked
  /\ pc[p] = "bget_sleep"
  /\ slock' = [slock EXCEPT ![b[p]] = p]
  /\ pc' = [pc EXCEPT ![p] = "bread"]
  /\ UNCHANGED << ticks, dev, blockno, valid, refcnt, tick, next, head,
                  lock, hlock, panicked, rdev, rblockno, bucket, idx, b,
                  held, pins >>
  /\ UNCHANGED << stable, dropped, kall >>

\* lines 99-100, 123-124: acquiresleep(&b->lock); return b, after a hit
BgetSleep(p) ==
  /\ ~panicked
  /\ pc[p] = "bget_sleep"
  /\ slock[b[p]] = NoProc
  /\ slock' = [slock EXCEPT ![b[p]] = p]
  /\ pc' = [pc EXCEPT ![p] = "bread"]
  /\ UNCHANGED << ticks, dev, blockno, valid, refcnt, tick, next, head,
                  lock, hlock, panicked, rdev, rblockno, bucket, idx, b,
                  held, pins >>
  /\ UNCHANGED << stable, dropped, kall >>

\* lines 156-157: acquiresleep(&min_buf->lock); return min_buf, after an
\* eviction
BgetEvictSleep(p) ==
  /\ ~panicked
  /\ pc[p] = "bget_esleep"
  /\ slock[b[p]] = NoProc
  /\ slock' = [slock EXCEPT ![b[p]] = p]
  /\ pc' = [pc EXCEPT ![p] = "bread"]
  /\ UNCHANGED << ticks, dev, blockno, valid, refcnt, tick, next, head,
                  lock, hlock, panicked, rdev, rblockno, bucket, idx, b,
                  held, pins >>
  /\ UNCHANGED << stable, dropped, kall >>

\* bread, lines 174-179: read the block if the buf is not valid; return b.
BreadReturn(p) ==
  /\ ~panicked
  /\ pc[p] = "bread"
  /\ valid' = [valid EXCEPT ![b[p]] = 1]
  /\ held' = [held EXCEPT ![p] = b[p]]
  /\ b' = [b EXCEPT ![p] = NULL]
  /\ rdev' = [rdev EXCEPT ![p] = 0]
  /\ rblockno' = [rblockno EXCEPT ![p] = 0]
  /\ pc' = [pc EXCEPT ![p] = "ready"]
  /\ UNCHANGED << ticks, dev, blockno, refcnt, tick, next, slock, head,
                  lock, hlock, panicked, bucket, idx, pins >>
  /\ UNCHANGED << stable, dropped, kall >>

\* ---- brelse ----

\* A brelse that leaves the sleeplock held.
releasesleepForgotten(s) == slock

\* brelse, line 197: releasesleep(&b->lock)
releasesleep(s) == [slock EXCEPT ![s] = NoProc]

\* lines 194-199: the holdingsleep check, releasesleep, bucket = HASH(...)
BrelseCall(p) ==
  /\ ~panicked
  /\ pc[p] = "ready"
  /\ held[p] # NULL
  /\ IF slock[held[p]] # p
     THEN /\ pc' = [pc EXCEPT ![p] = "panic"]
          /\ panicked' = TRUE
          /\ UNCHANGED << slock, bucket, b, held >>
     ELSE /\ slock' = releasesleep(held[p])
          /\ bucket' = [bucket EXCEPT
                          ![p] = HASH(dev[held[p]], blockno[held[p]])]
          /\ b' = [b EXCEPT ![p] = held[p]]
          /\ held' = [held EXCEPT ![p] = NULL]
          /\ pc' = [pc EXCEPT ![p] = "brelse_acq"]
          /\ UNCHANGED panicked
  /\ UNCHANGED << ticks, dev, blockno, valid, refcnt, tick, next, head,
                  lock, hlock, rdev, rblockno, idx, pins >>
  /\ UNCHANGED << stable, dropped, kall >>

\* line 200: acquire(&bhash.lock[bucket])
BrelseAcquire(p) ==
  /\ ~panicked
  /\ pc[p] = "brelse_acq"
  /\ lock[bucket[p]] = NoProc
  /\ lock' = [lock EXCEPT ![bucket[p]] = p]
  /\ pc' = [pc EXCEPT ![p] = "brelse_dec"]
  /\ UNCHANGED << ticks, dev, blockno, valid, refcnt, tick, next, slock,
                  head, hlock, panicked, rdev, rblockno, bucket, idx, b,
                  held, pins >>
  /\ UNCHANGED << stable, dropped, kall >>

\* A brelse that never stamps the buf.
ReleaseTickNever(s, n) == tick

\* lines 203-207: the release tick when the reference count reaches 0
ReleaseTick(s, n) == IF n = 0 THEN [tick EXCEPT ![s] = ticks] ELSE tick

\* lines 201-208: b->refcnt--; the release tick when it reaches 0
BrelseDec(p) ==
  /\ ~panicked
  /\ pc[p] = "brelse_dec"
  /\ LET n == RefDec(refcnt[b[p]]) IN
       /\ refcnt' = [refcnt EXCEPT ![b[p]] = n]
       /\ tick' = ReleaseTick(b[p], n)
       /\ dropped' = Dropped("brelse", b[p], n)
  /\ lock' = [lock EXCEPT ![bucket[p]] = NoProc]
  /\ b' = [b EXCEPT ![p] = NULL]
  /\ bucket' = [bucket EXCEPT ![p] = 0]
  /\ pc' = [pc EXCEPT ![p] = "ready"]
  /\ UNCHANGED << ticks, dev, blockno, valid, next, slock, head, hlock,
                  panicked, rdev, rblockno, idx, held, pins >>
  /\ UNCHANGED << stable, kall >>

\* ---- bpin / bunpin ----

\* line 213: bucket = HASH(b->dev, b->blockno), by the holder of the buf
BpinCall(p) ==
  /\ ~panicked
  /\ pc[p] = "ready"
  /\ held[p] # NULL
  /\ pins[held[p]] < MaxPins
  /\ b' = [b EXCEPT ![p] = held[p]]
  /\ bucket' = [bucket EXCEPT ![p] = HASH(dev[held[p]], blockno[held[p]])]
  /\ pc' = [pc EXCEPT ![p] = "bpin_acq"]
  /\ UNCHANGED << ticks, dev, blockno, valid, refcnt, tick, next, slock,
                  head, lock, hlock, panicked, rdev, rblockno, idx, held,
                  pins >>
  /\ UNCHANGED << stable, dropped, kall >>

\* line 214
BpinAcquire(p) ==
  /\ ~panicked
  /\ pc[p] = "bpin_acq"
  /\ lock[bucket[p]] = NoProc
  /\ lock' = [lock EXCEPT ![bucket[p]] = p]
  /\ pc' = [pc EXCEPT ![p] = "bpin_inc"]
  /\ UNCHANGED << ticks, dev, blockno, valid, refcnt, tick, next, slock,
                  head, hlock, panicked, rdev, rblockno, bucket, idx, b,
                  held, pins >>
  /\ UNCHANGED << stable, dropped, kall >>

\* lines 215-216
BpinInc(p) ==
  /\ ~panicked
  /\ pc[p] = "bpin_inc"
  /\ refcnt' = [refcnt EXCEPT ![b[p]] = RefInc(refcnt[b[p]])]
  /\ lock' = [lock EXCEPT ![bucket[p]] = NoProc]
  /\ pins' = [pins EXCEPT ![b[p]] = pins[b[p]] + 1]
  /\ b' = [b EXCEPT ![p] = NULL]
  /\ bucket' = [bucket EXCEPT ![p] = 0]
  /\ pc' = [pc EXCEPT ![p] = "ready"]
  /\ UNCHANGED << ticks, dev, blockno, valid, tick, next, slock, head,
                  hlock, panicked, rdev, rblockno, idx, held >>
  /\ UNCHANGED << stable, dropped, kall >>

\* line 221: bunpin of a pinned buf; the call takes one of its pins, so
\* that no two bunpin calls undo the same bpin.
BunpinCall(p, s) ==
  /\ ~panicked
  /\ pc[p] = "ready"
  /\ pins[s] > 0
  /\ pins' = [pins EXCEPT ![s] = pins[s] - 1]
  /\ b' = [b EXCEPT ![p] = s]
  /\ bucket' = [bucket EXCEPT ![p] = HASH(dev[s], blockno[s])]
  /\ pc' = [pc EXCEPT ![p] = "bunpin_acq"]
  /\ UNCHANGED << ticks, dev, blockno, valid, refcnt, tick, next, slock,
                  head, lock, hlock, panicked, rdev, rblockno, idx, held >>
  /\ UNCHANGED << stable, dropped, kall >>

\* line 222
BunpinAcquire(p) ==
  /\ ~panicked
  /\ pc[p] = "bunpin_acq"
  /\ lock[bucket[p]] = NoProc
  /\ lock' = [lock EXCEPT ![bucket[p]] = p]
  /\ pc' = [pc EXCEPT ![p] = "bunpin_dec"]
  /\ UNCHANGED << ticks, dev, blockno, valid, refcnt, tick, next, slock,
                  head, hlock, panicked, rdev, rblockno, bucket, idx, b,
                  held, pins >>
  /\ UNCHANGED << stable, dropped, kall >>

\* lines 223-224
BunpinDec(p) ==
  /\ ~panicked
  /\ pc[p] = "bunpin_dec"
  /\ LET n == RefDec(refcnt[b[p]]) IN
       /\ refcnt' = [refcnt EXCEPT ![b[p]] = n]
       /\ dropped' = Dropped("bunpin", b[p], n)
  /\ lock' = [lock EXCEPT ![bucket[p]] = NoProc]
  /\ b' = [b EXCEPT ![p] = NULL]
  /\ bucket' = [bucket EXCEPT ![p] = 0]
  /\ pc' = [pc EXCEPT ![p] = "ready"]
  /\ UNCHANGED << ticks, dev, blockno, valid, tick, next, slock, head,
                  hlock, panicked, rdev, rblockno, idx, held, pins >>
  /\ UNCHANGED << stable, kall >>

\* The timer interrupt advances ticks.  The clock is followed up to
\* MaxTicks and, late in its life, up to the largest uint.
Tick ==
  /\ ~panicked
  /\ ticks \notin {MaxTicks, UINT32_MAX}
  /\ ticks' = UInc(ticks)
  /\ UNCHANGED << dev, blockno, valid, refcnt, tick, next, slock, head,
                  lock, hlock, panicked, pc, rdev, rblockno, bucket, idx,
                  b, held, pins >>
  /\ UNCHANGED << stable, dropped, kall >>

BioNext ==
  \/ Tick
  \/ \E p \in Procs :
       \/ \E k \in Keys : BreadCall(p, k[1], k[2])
       \/ BgetAcquire(p)
       \/ BgetFast(p)
       \/ BgetHlock(p)
       \/ BgetBucketAcquire(p)
       \/ BgetScanHit(p)
       \/ BgetHitRelease(p)
       \/ BgetScanEvict(p)
       \/ BgetScanNext(p)
       \/ BgetPanic(p)
       \/ BgetMoveAcquire(p)
       \/ BgetLink(p)
       \/ BgetEvictRelease(p)
       \/ BgetSleep(p)
       \/ BgetEvictSleep(p)
       \/ BreadReturn(p)
       \/ BrelseCall(p)
       \/ BrelseAcquire(p)
       \/ BrelseDec(p)
       \/ BpinCall(p)
       \/ BpinAcquire(p)
       \/ BpinInc(p)
       \/ \E s \in Slots : BunpinCall(p, s)
       \/ BunpinAcquire(p)
       \/ BunpinDec(p)

\* ------------------------------------------------------------------------
\* kalloc.c
\* ------------------------------------------------------------------------

\* PGROUNDUP of riscv.h
PGROUNDUP(sz) == ((sz + PGSIZE - 1) \div PGSIZE) * PGSIZE

\* The first address after the kernel (extern char end[]): not page aligned.
end == PGSIZE + 1

\* PHYSTOP of memlayout.h, scaled so that the range holds kframes pages.
PHYSTOP == PGROUNDUP(end) + kframes * PGSIZE

Pages == { PGROUNDUP(end) + k * PGSIZE : k \in 0..(kframes - 1) }

\* kinit before its call of freerange, on a machine with n pages: the locks
\* are initialised, the free lists are the NULL pointers of static storage.
KInit(n) ==
  /\ kframes = n
  /\ kfreelist = [c \in CPUs |-> NULL]
  /\ knext = [f \in Pages |-> JUNK]
  /\ klock = [c \in CPUs |-> NoCpu]
  /\ kpc = [c \in CPUs |-> "ready"]
  /\ ki = [c \in CPUs |-> 0]
  /\ kr = [c \in CPUs |-> NULL]
  /\ kinited = FALSE
  /\ kalloced = [f \in Pages |-> 0]
  /\ ktwice = 0
  /\ kpre = [c \in CPUs |-> << >>]

\* With kseq, a CPU takes a step only while every other CPU is between
\* calls: no two calls of the allocator overlap.
MayRun(c) == kseq => \A d \in CPUs \ {c} : kpc[d] = "ready"

\* The free list of CPU c, as the sequence of pages reached from its head
\* through run.next (cut at kframes + 1 links, and at a pointer that is the
\* junk of a filled page).
RECURSIVE KWalk(_, _)
KWalk(f, fuel) ==
  IF f \notin Pages \/ fuel = 0 THEN << >>
  ELSE << f >> \o KWalk(knext[f], fuel - 1)

KList(c) == KWalk(kfreelist[c], kframes + 1)

\* freerange, lines 48-55: every whole page of [pa_start, pa_end) is pushed
\* on the list whose head is fl.
RECURSIVE FreerangeLoop(_, _, _, _)
FreerangeLoop(p, pa_end, fl, nx) ==
  IF p + PGSIZE <= pa_end
  THEN FreerangeLoop(p + PGSIZE, pa_end, p, [nx EXCEPT ![p] = fl])
  ELSE [freelist |-> fl, next |-> nx]

\* kinit, line 35, on the CPU that boots: freerange(end, PHYSTOP) is called.
KinitCall(c) ==
  /\ ~panicked
  /\ MayRun(c)
  /\ kpc[c] = "ready"
  /\ ~kinited
  /\ kinited' = TRUE
  /\ kpc' = [kpc EXCEPT ![c] = "fr_acq"]
  /\ UNCHANGED << kfreelist, knext, klock, ki, kr, kalloced, panicked >>
  /\ UNCHANGED << biostate, ktwice, kpre, kseq, kframes >>

\* freerange, line 43
FreerangeAcquire(c) ==
  /\ ~panicked
  /\ MayRun(c)
  /\ kpc[c] = "fr_acq"
  /\ klock[c] = NoCpu
  /\ klock' = [klock EXCEPT ![c] = c]
  /\ kpc' = [kpc EXCEPT ![c] = "fr_push"]
  /\ UNCHANGED << kfreelist, knext, ki, kr, kinited, kalloced, panicked >>
  /\ UNCHANGED << biostate, ktwice, kpre, kseq, kframes >>

\* freerange, lines 48-57
FreerangePush(c) ==
  /\ ~panicked
  /\ MayRun(c)
  /\ kpc[c] = "fr_push"
  /\ LET res == FreerangeLoop(PGROUNDUP(end), PHYSTOP, kfreelist[c], knext) IN
       /\ kfreelist' = [kfreelist EXCEPT ![c] = res.freelist]
       /\ knext' = res.next
  /\ klock' = [klock EXCEPT ![c] = NoCpu]
  /\ kpc' = [kpc EXCEPT ![c] = "ready"]
  /\ UNCHANGED << ki, kr, kinited, kalloced, panicked >>
  /\ UNCHANGED << biostate, ktwice, kpre, kseq, kframes >>

\* kinit has returned: freerange has pushed the pages.  The kernel calls
\* kalloc and kfree only from then on.
Populated ==
  kinited /\ \A c \in CPUs : kpc[c] \notin {"fr_acq", "fr_push"}

\* kfree, line 68
KfreeBad(pa) == pa % PGSIZE # 0 \/ pa < end \/ pa >= PHYSTOP

\* kfree, lines 68-78, of a page the caller got from kalloc: the check of
\* the address, the junk fill, r = pa.
KfreeCall(c, pa) ==
  /\ ~panicked
  /\ MayRun(c)
  /\ Populated
  /\ kpc[c] = "ready"
  /\ kalloced[pa] > 0
  /\ IF KfreeBad(pa)
     THEN /\ kpc' = [kpc EXCEPT ![c] = "panic"]
          /\ panicked' = TRUE
          /\ UNCHANGED << knext, kr, kalloced >>
     ELSE /\ knext' = [knext EXCEPT ![pa] = JUNK]
          /\ kr' = [kr EXCEPT ![c] = pa]
          /\ kalloced' = [kalloced EXCEPT ![pa] = kalloced[pa] - 1]
          /\ kpc' = [kpc EXCEPT ![c] = "kfree_acq"]
          /\ UNCHANGED panicked
  /\ UNCHANGED << kfreelist, klock, ki, kinited >>
  /\ UNCHANGED << biostate, ktwice, kpre, kseq, kframes >>

\* kfree, line 80
KfreeAcquire(c) ==
  /\ ~panicked
  /\ MayRun(c)
  /\ kpc[c] = "kfree_acq"
  /\ klock[c] = NoCpu
  /\ klock' = [klock EXCEPT ![c] = c]
  /\ kpc' = [kpc EXCEPT ![c] = "kfree_push"]
  /\ UNCHANGED << kfreelist, knext, ki, kr, kinited, kalloced, panicked >>
  /\ UNCHANGED << biostate, ktwice, kpre, kseq, kframes >>

\* kfree, lines 81-84
KfreePush(c) ==
  /\ ~panicked
  /\ MayRun(c)
  /\ kpc[c] = "kfree_push"
  /\ knext' = [knext EXCEPT ![kr[c]] = kfreelist[c]]
  /\ kfreelist' = [kfreelist EXCEPT ![c] = kr[c]]
  /\ klock' = [klock EXCEPT ![c] = NoCpu]
  /\ kr' = [kr EXCEPT ![c] = NULL]
  /\ kpc' = [kpc EXCEPT ![c] = "ready"]
  /\ UNCHANGED << ki, kinited, kalloced, panicked >>
  /\ UNCHANGED << biostate, ktwice, kpre, kseq, kframes >>

\* kfree, lines 68-78, of a page the caller does not own (it is in a free
\* list, or lost): the check of the address passes, the junk fill overwrites
\* the page's link, r = pa.  The call goes on as any kfree does, at line 80.
\* Callers make this mistake at most MaxTwice times.
KfreeTwice(c, pa) ==
  /\ ~panicked
  /\ MayRun(c)
  /\ Populated
  /\ kpc[c] = "ready"
  /\ kalloced[pa] = 0
  /\ \A d \in CPUs : kr[d] # pa
  /\ ktwice < MaxTwice
  /\ ktwice' = ktwice + 1
  /\ IF KfreeBad(pa)
     THEN /\ kpc' = [kpc EXCEPT ![c] = "panic"]
          /\ panicked' = TRUE
          /\ UNCHANGED << knext, kr >>
     ELSE /\ knext' = [knext EXCEPT ![pa] = JUNK]
          /\ kr' = [kr EXCEPT ![c] = pa]
          /\ kpc' = [kpc EXCEPT ![c] = "kfree_acq"]
          /\ UNCHANGED panicked
  /\ UNCHANGED << kfreelist, klock, ki, kinited, kalloced >>
  /\ UNCHANGED << biostate, kpre, kseq, kframes >>

\* kalloc, lines 94-96
KallocCall(c) ==
  /\ ~panicked
  /\ MayRun(c)
  /\ Populated
  /\ kpc[c] = "ready"
  /\ kpc' = [kpc EXCEPT ![c] = "kalloc_acq"]
  /\ UNCHANGED << kfreelist, knext, klock, ki, kr, kinited, kalloced,
                  panicked >>
  /\ kpre' = IF kseq THEN [d \in CPUs |-> KList(d)] ELSE kpre
  /\ UNCHANGED << biostate, ktwice, kseq, kframes >>

\* kalloc, line 98
KallocAcquire(c) ==
  /\ ~panicked
  /\ MayRun(c)
  /\ kpc[c] = "kalloc_acq"
  /\ klock[c] = NoCpu
  /\ klock' = [klock EXCEPT ![c] = c]
  /\ kpc' = [kpc EXCEPT ![c] = "kalloc_own"]
  /\ UNCHANGED << kfreelist, knext, ki, kr, kinited, kalloced, panicked >>
  /\ UNCHANGED << biostate, ktwice, kpre, kseq, kframes >>

\* A loop that stops one list early.
ProbeDoneEarly(i) == i >= NCPU - 1

\* kalloc, lines 107-111: the loop ends (line 107) or skips the caller's own
\* list (lines 110-111).
ProbeDone(i) == i >= NCPU

\* A loop that skips every list up to the caller's own.
SkipUpToOwn(i, id) == IF i <= id THEN id + 1 ELSE i

SkipOwn(i, id) == IF i = id THEN i + 1 ELSE i

\* kalloc, line 160: what the list's head becomes when r is taken from it.
PopNext(r) == knext[r]

\* kalloc, lines 99-101 and 159-163 with a page in the caller's own list: the
\* head is popped and the lock released.
KallocOwn(c) ==
  /\ ~panicked
  /\ MayRun(c)
  /\ kpc[c] = "kalloc_own"
  /\ kfreelist[c] \in Pages
  /\ kr' = [kr EXCEPT ![c] = kfreelist[c]]
  /\ kfreelist' = [kfreelist EXCEPT ![c] = PopNext(kfreelist[c])]
  /\ klock' = [klock EXCEPT ![c] = NoCpu]
  /\ kpc' = [kpc EXCEPT ![c] = "kalloc_ret"]
  /\ UNCHANGED << knext, ki, kinited, kalloced, panicked >>
  /\ UNCHANGED << biostate, ktwice, kpre, kseq, kframes >>

\* kalloc, lines 99-111 with the caller's own list empty: the loop over the
\* other lists starts, the caller's lock still held; with no other list
\* (lines 159-163) it is released and r is 0.
KallocEmpty(c) ==
  /\ ~panicked
  /\ MayRun(c)
  /\ kpc[c] = "kalloc_own"
  /\ kfreelist[c] = NULL
  /\ kr' = [kr EXCEPT ![c] = NULL]
  /\ LET i == SkipOwn(0, c) IN
       IF ProbeDone(i)
       THEN /\ klock' = [klock EXCEPT ![c] = NoCpu]
            /\ kpc' = [kpc EXCEPT ![c] = "kalloc_ret"]
            /\ UNCHANGED ki
       ELSE /\ ki' = [ki EXCEPT ![c] = i]
            /\ kpc' = [kpc EXCEPT ![c] = "kalloc_probe"]
            /\ UNCHANGED klock
  /\ UNCHANGED << kfreelist, knext, kinited, kalloced, panicked >>
  /\ UNCHANGED << biostate, ktwice, kpre, kseq, kframes >>

\* kalloc, line 112: acquire(&kmem[i].lock)
KallocProbeAcquire(c) ==
  /\ ~panicked
  /\ MayRun(c)
  /\ kpc[c] = "kalloc_probe"
  /\ klock[ki[c]] = NoCpu
  /\ klock' = [klock EXCEPT ![ki[c]] = c]
  /\ kpc' = [kpc EXCEPT ![c] = "kalloc_steal"]
  /\ UNCHANGED << kfreelist, knext, ki, kr, kinited, kalloced, panicked >>
  /\ UNCHANGED << biostate, ktwice, kpre, kseq, kframes >>

\* kalloc, lines 116-124: the slow pointer pre when the fast pointer stops.
RECURSIVE SplitPre(_, _, _)
SplitPre(or, fast, pre) ==
  IF fast # NULL /\ knext[fast] # NULL
  THEN SplitPre(or, knext[knext[fast]], IF pre = NULL THEN or ELSE knext[pre])
  ELSE pre

\* kalloc, line 117: how the walk from fast ends.  It ends when fast or
\* fast->next is 0; it traps when the pointer it reads through is the junk
\* of a filled page; on a list that closes on itself it does not end.
RECURSIVE SplitEnd(_, _)
SplitEnd(fast, fuel) ==
  IF fast = NULL THEN "ends"
  ELSE IF fast \notin Pages THEN "traps"
  ELSE IF knext[fast] = NULL THEN "ends"
  ELSE IF knext[fast] \notin Pages THEN "traps"
  ELSE IF fuel = 0 THEN "loops"
  ELSE SplitEnd(knext[knext[fast]], fuel - 1)

\* A split that hands the front of list i to list id and leaves the back.
StealHeadsFront(id, i) ==
  LET or == kfreelist[i]
      pre == SplitPre(or, or, NULL)
  IN  IF pre # NULL THEN [kfreelist EXCEPT ![id] = or, ![i] = knext[pre]]
      ELSE [kfreelist EXCEPT ![id] = or, ![i] = NULL]

\* kalloc, lines 125-134: the two list heads and the links after the split
\* of list i, whose back half goes to list id.
StealHeads(id, i) ==
  LET or == kfreelist[i]
      pre == SplitPre(or, or, NULL)
  IN  IF pre # NULL THEN [kfreelist EXCEPT ![id] = knext[pre]]
      ELSE [kfreelist EXCEPT ![id] = or, ![i] = NULL]

\* A split that forgets pre->next = 0.
StealLinksKept(i) == knext

StealLinks(i) ==
  LET or == kfreelist[i]
      pre == SplitPre(or, or, NULL)
  IN  IF pre # NULL THEN [knext EXCEPT ![pre] = NULL] ELSE knext

\* kalloc, lines 113-154 with a page in list i: the list is split, r is the
\* head of the caller's new list, the lock of list i is released.
KallocSteal(c) ==
  /\ ~panicked
  /\ MayRun(c)
  /\ kpc[c] = "kalloc_steal"
  /\ kfreelist[ki[c]] # NULL
  /\ SplitEnd(kfreelist[ki[c]], kframes) = "ends"
  /\ LET heads == StealHeads(c, ki[c]) IN
       /\ knext' = StealLinks(ki[c])
       /\ kr' = [kr EXCEPT ![c] = heads[c]]
       /\ kfreelist' = heads
  /\ klock' = [klock EXCEPT ![ki[c]] = NoCpu]
  /\ ki' = [ki EXCEPT ![c] = 0]
  /\ kpc' = [kpc EXCEPT ![c] = "kalloc_pop"]
  /\ UNCHANGED << kinited, kalloced, panicked >>
  /\ UNCHANGED << biostate, ktwice, kpre, kseq, kframes >>

\* kalloc, lines 113-114, 156, 107-111 with list i empty: its lock is
\* released and the loop goes on, or ends after the last list with r = 0.
KallocProbeNext(c) ==
  /\ ~panicked
  /\ MayRun(c)
  /\ kpc[c] = "kalloc_steal"
  /\ kfreelist[ki[c]] = NULL
  /\ klock' = [klock EXCEPT ![ki[c]] = NoCpu]
  /\ LET i == SkipOwn(ki[c] + 1, c) IN
       IF ProbeDone(i)
       THEN /\ ki' = [ki EXCEPT ![c] = 0]
            /\ kpc' = [kpc EXCEPT ![c] = "kalloc_pop"]
       ELSE /\ ki' = [ki EXCEPT ![c] = i]
            /\ kpc' = [kpc EXCEPT ![c] = "kalloc_probe"]
  /\ UNCHANGED << kfreelist, knext, kr, kinited, kalloced, panicked >>
  /\ UNCHANGED << biostate, ktwice, kpre, kseq, kframes >>

\* kalloc, lines 159-163 after the loop over the other lists: r, if any, is
\* popped from the caller's list and the caller's lock is released.
KallocPop(c) ==
  /\ ~panicked
  /\ MayRun(c)
  /\ kpc[c] = "kalloc_pop"
  /\ kfreelist' = IF kr[c] # NULL
                  THEN [kfreelist EXCEPT ![c] = PopNext(kr[c])]
                  ELSE kfreelist
  /\ klock' = [klock EXCEPT ![c] = NoCpu]
  /\ kpc' = [kpc EXCEPT ![c] = "kalloc_ret"]
  /\ UNCHANGED << knext, ki, kr, kinited, kalloced, panicked >>
  /\ UNCHANGED << biostate, ktwice, kpre, kseq, kframes >>

\* kalloc, line 160 or line 117, reads through a pointer that is the junk of
\* a filled page (0x0101... or 0x0505..., not an address of the kernel): the
\* load traps and the kernel's trap handler panics.
KallocTrap(c) ==
  /\ ~panicked
  /\ MayRun(c)
  /\ \/ kpc[c] = "kalloc_own" /\ kfreelist[c] \notin Pages \cup {NULL}
     \/ kpc[c] = "kalloc_steal" /\ SplitEnd(kfreelist[ki[c]], kframes) = "traps"
  /\ kpc' = [kpc EXCEPT ![c] = "panic"]
  /\ panicked' = TRUE
  /\ UNCHANGED << kfreelist, knext, klock, ki, kr, kinited, kalloced >>
  /\ UNCHANGED << biostate, ktwice, kpre, kseq, kframes >>

\* kalloc, lines 165-167: the junk fill of the page, if any; return r.
KallocReturn(c) ==
  /\ ~panicked
  /\ MayRun(c)
  /\ kpc[c] = "kalloc_ret"
  /\ IF kr[c] # NULL
     THEN /\ knext' = [knext EXCEPT ![kr[c]] = JUNK]
          /\ kalloced' = [kalloced EXCEPT ![kr[c]] = kalloced[kr[c]] + 1]
     ELSE UNCHANGED << knext, kalloced >>
  /\ kr' = [kr EXCEPT ![c] = NULL]
  /\ kpc' = [kpc EXCEPT ![c] = "ready"]
  /\ UNCHANGED << kfreelist, klock, ki, kinited, panicked >>
  /\ kpre' = [d \in CPUs |-> << >>]
  /\ UNCHANGED << biostate, ktwice, kseq, kframes >>

KNext ==
  \E c \in CPUs :
    \/ KinitCall(c)
    \/ FreerangeAcquire(c)
    \/ FreerangePush(c)
    \/ \E pa \in Pages : KfreeCall(c, pa)
    \/ KfreeAcquire(c)
    \/ KfreePush(c)
    \/ KallocCall(c)
    \/ KallocAcquire(c)
    \/ KallocOwn(c)
    \/ KallocEmpty(c)
    \/ KallocProbeAcquire(c)
    \/ KallocSteal(c)
    \/ KallocProbeNext(c)
    \/ KallocPop(c)
    \/ KallocReturn(c)

\* The allocator with callers that may free a page twice.
KNextTwice ==
  \/ KNext
  \/ \E c \in CPUs, pa \in Pages : KfreeTwice(c, pa)
  \/ \E c \in CPUs : KallocTrap(c)

\* ------------------------------------------------------------------------
\* Specifications
\* ------------------------------------------------------------------------
\* main(): kinit and binit have initialised the locks and the cache.
Init == BioInit /\ KInit(NFrames) /\ kseq = FALSE

\* The same, a long time after boot.
InitLate == BioInitLate /\ KInit(NFrames) /\ kseq = FALSE

\* The machine whose allocator calls run one at a time.
InitSeq == BioInit /\ KInit(NFramesSeq) /\ kseq = TRUE

\* The allocator's calls run one at a time on the machine of Init.
InitTwice == BioInit /\ KInit(NFrames) /\ kseq = TRUE

\* The cache's callers in any interleaving.
SpecBio == Init /\ [][BioNext]_vars

\* The cache's callers in any interleaving, with the clock near its end.
SpecBioLate == InitLate /\ [][BioNext]_vars

\* The allocator's callers in any interleaving.
SpecKalloc == Init /\ [][KNext]_vars

\* The allocator's calls one at a time.
SpecKallocSeq == InitSeq /\ [][KNext]_vars

\* The allocator's calls one at a time, by callers that may free a page
\* that is already free.
SpecKfreeTwice == InitTwice /\ [][KNextTwice]_vars

\* ------------------------------------------------------------------------
\* Properties of the buffer cache
\* ------------------------------------------------------------------------

\* bget has chosen the buf b[p] for its caller: a hit counted it, or an
\* eviction recycled it.
Chosen(p) ==
  pc[p] \in {"bget_hit_hrel", "bget_macq", "bget_link", "bget_hrel",
             "bget_sleep", "bget_esleep", "bread"}

\* C1: no two distinct bufs with reference count > 0 carry the same
\* (dev, blockno); the buf bget chooses carries the key asked for, and two
\* bget calls in progress for the same key have chosen the same buf.
C1_OneBufPerBlock ==
  /\ \A s1, s2 \in Slots :
       (s1 # s2 /\ refcnt[s1] # 0 /\ refcnt[s2] # 0)
         => << dev[s1], blockno[s1] >> # << dev[s2], blockno[s2] >>
  /\ \A p \in Procs :
       Chosen(p) => dev[b[p]] = rdev[p] /\ blockno[b[p]] = rblockno[p]
  /\ \A p, q \in Procs :
       (Chosen(p) /\ Chosen(q) /\ rdev[p] = rdev[q]
          /\ rblockno[p] = rblockno[q]) => b[p] = b[q]

\* Two calls for the same block have both missed on the fast path: one has
\* recycled a buf for the block, the other is about to take hlock and scan.
C1_Witness ==
  \E p, q \in Procs :
    /\ p # q
    /\ pc[p] = "bget_esleep" /\ valid[b[p]] = 0 /\ refcnt[b[p]] = 1
    /\ pc[q] = "bget_hacq"
    /\ rdev[p] = rdev[q] /\ rblockno[p] = rblockno[q]

\* bget recycles buf s in this step: an eviction gives it another identity.
Recycled(s) == dev'[s] # dev[s] \/ blockno'[s] # blockno[s]

\* C5: the buf an eviction recycles has the smallest timestamp among all
\* the bufs with reference count 0, whatever their bucket.
C5_EvictsGloballyOldest ==
  [][\A s \in Slots :
       Recycled(s) => \A o \in Unreferenced : ~ULess(tick[o], tick[s])]_vars

\* C6: a buf's (dev, blockno) is overwritten, and its valid flag reset, only
\* in a step that finds its reference count 0; while the count is nonzero
\* the identity stays.
C6_OnlyUnreferencedRecycled ==
  [][\A s \in Slots :
       (Recycled(s) \/ (valid[s] = 1 /\ valid'[s] = 0)) => refcnt[s] = 0]_vars

\* An eviction has passed over a pinned buf with an older timestamp and
\* recycled a younger unreferenced one.
C6_Witness ==
  \E p \in Procs, s \in Slots :
    /\ pc[p] = "bget_esleep" /\ valid[b[p]] = 0 /\ dev[b[p]] = 1
    /\ s # b[p]
    /\ pins[s] > 0 /\ refcnt[s] = 1
    /\ ULess(tick[s], tick[b[p]])

\* The number of times buf s is linked in the chains of the buckets.
Links(s) ==
  Cardinality({ kj \in { << k, j >> : k \in Buckets, j \in 1..(NBUF + 1) } :
                  kj[2] <= Len(Chain(kj[1])) /\ Chain(kj[1])[kj[2]] = s })

\* C7: at every instant, a migration between two buckets included, every buf
\* is linked in exactly one chain: none is missing, none is linked twice.
C7_AlwaysInOneChain == \A s \in Slots : Links(s) = 1

\* The bget, bread and bpin calls on buf s not yet matched by the decrement
\* of a brelse or bunpin call.
Refs(s) ==
  Cardinality({ p \in Procs : held[p] = s })
  + Cardinality({ p \in Procs :
        /\ b[p] = s
        /\ pc[p] \in {"bget_hit_hrel", "bget_macq", "bget_link",
                      "bget_hrel", "bget_sleep", "bget_esleep", "bread",
                      "brelse_acq", "brelse_dec", "bunpin_acq",
                      "bunpin_dec"} })
  + pins[s]

\* C8: the reference count of every buf equals the number of bget and bpin
\* calls on it not yet matched by brelse or bunpin: it is never negative (as
\* a uint: never wrapped) and is 0 exactly when every call is matched.
C8_RefcntCountsCalls == \A s \in Slots : refcnt[s] = Refs(s)

\* A buf is held by one caller, awaited by another and pinned.
C8_Witness ==
  \E s \in Slots, p, q \in Procs :
    /\ held[p] = s
    /\ pc[q] = "bget_sleep" /\ b[q] = s
    /\ pins[s] = 1
    /\ refcnt[s] = 3

\* Caller p is past the return of bget with buf s, and has not called brelse.
Holds(p, s) == held[p] = s \/ (pc[p] = "bread" /\ b[p] = s)

\* Caller p is at one of the acquiresleep calls of bget (lines 99, 123, 156).
AtAcquiresleep(p) == pc[p] \in {"bget_sleep", "bget_esleep"}

\* C9: whoever is past the return of bget holds the sleeplock of its buf; a
\* sleeplock changes hands only from free to a caller that stands at
\* acquiresleep in bget for that buf and returns with it, or from its holder
\* to free in the holder's brelse, never from one caller to another; and a
\* bget call returns with a buf only when no caller holds that buf: a second
\* bget of the key stays at acquiresleep until the holder has called brelse.
C9_ContentLockExclusive ==
  /\ [](\A p \in Procs, s \in Slots : Holds(p, s) => slock[s] = p)
  /\ [][/\ \A s \in Slots :
            slock'[s] # slock[s] =>
              \/ /\ slock[s] = NoProc
                 /\ AtAcquiresleep(slock'[s]) /\ b[slock'[s]] = s
                 /\ pc'[slock'[s]] = "bread"
              \/ /\ slock'[s] = NoProc
                 /\ held[slock[s]] = s
                 /\ pc'[slock[s]] = "brelse_acq"
        /\ \A q \in Procs :
             (AtAcquiresleep(q) /\ pc'[q] # pc[q]) =>
               \A p \in Procs : ~Holds(p, b[q])]_vars

\* One caller holds a buf, another has chosen the same buf and waits.
C9_Witness ==
  \E p, q \in Procs :
    /\ held[p] # NULL /\ slock[held[p]] = p
    /\ pc[q] = "bget_sleep" /\ b[q] = held[p]

\* Caller p is in panic("ind: no buffers"), bget, line 164.
NoBuffers(p) == pc[p] = "panic" /\ hlock = p

\* C12: bget panics only when the block is not cached and no buf has had
\* reference count 0 for the whole duration of the call: with such a buf,
\* whatever its timestamp, bget recycles a buf and returns.
C12_PanicOnlyWithoutUnreferenced ==
  \A p \in Procs :
    NoBuffers(p) =>
      /\ stable[p] = {}
      /\ \A s \in Slots : dev[s] # rdev[p] \/ blockno[s] # rblockno[p]

\* The bucket locks caller p holds.
BucketLocks(p) == { k \in Buckets : lock[k] = p }

\* Buf s is linked in no bucket's chain.
InNoChain(s) ==
  \A k \in Buckets :
    head[k] # NULL => \A j \in DOMAIN Chain(k) : Chain(k)[j] # s

\* C14: a buf that is in no chain is being moved by a caller that holds both
\* bucket locks, the victim bucket's and the target bucket's, so that no
\* other caller can see it absent from every chain.
C14_MovedUnderBothLocks ==
  \A s \in Slots :
    InNoChain(s) =>
      \E p \in Procs : b[p] = s /\ Cardinality(BucketLocks(p)) = 2

\* Caller p spins in acquire() on a bucket lock.
WantsBucket(p) ==
  pc[p] \in {"bget_acq", "bget_bacq", "bget_macq", "brelse_acq", "bpin_acq",
             "bunpin_acq"}

\* The bucket whose lock caller p spins on.
Wanted(p) ==
  IF pc[p] \in {"bget_acq", "bget_macq"} THEN new_bucket(p) ELSE bucket[p]

\* Caller p spins in acquire() on a lock that caller q holds.
BWaitsFor(p, q) ==
  \/ pc[p] = "bget_hacq" /\ hlock = q
  \/ WantsBucket(p) /\ lock[Wanted(p)] = q

\* Caller q is reached from caller p in 1..n steps of BWaitsFor.
RECURSIVE BWaitPath(_, _, _)
BWaitPath(p, q, n) ==
  IF n = 0 THEN FALSE
  ELSE \/ BWaitsFor(p, q)
       \/ \E r \in Procs : BWaitsFor(p, r) /\ BWaitPath(r, q, n - 1)

\* C15: a caller that requests hlock holds no bucket lock, a caller that
\* requests a bucket lock holds at most one bucket lock, and no callers wait
\* in a cycle for hlock and the bucket locks.
C15_NoCircularWaitOnSpinlocks ==
  /\ \A p \in Procs : pc[p] = "bget_hacq" => BucketLocks(p) = {}
  /\ \A p \in Procs : WantsBucket(p) => Cardinality(BucketLocks(p)) <= 1
  /\ \A p \in Procs : ~BWaitPath(p, p, NPROC)

\* A caller that holds hlock waits for a bucket lock, whose holder does not
\* wait for anything.
C15_Witness ==
  \E p, q \in Procs :
    /\ p # q
    /\ pc[p] = "bget_bacq" /\ hlock = p
    /\ lock[bucket[p]] = q
    /\ pc[q] \in {"bget_fast", "brelse_dec", "bpin_inc", "bunpin_dec"}

\* C16: a caller that has reached acquiresleep in bget, after a fast-path
\* hit, a re-check hit or an eviction, holds neither a bucket lock nor hlock:
\* nobody waits for a sleeplock while holding a spinlock.
C16_NoSpinlockAcrossSleep ==
  \A p \in Procs :
    AtAcquiresleep(p) => BucketLocks(p) = {} /\ hlock # p

\* After a hit, a caller waits at acquiresleep for a buf whose sleeplock
\* another caller, which has not returned from bread yet, holds.
C16_Witness ==
  \E p, q \in Procs :
    /\ pc[p] = "bget_sleep" /\ slock[b[p]] = q /\ q # p
    /\ valid[b[p]] = 0
    /\ refcnt[b[p]] = 2

\* ------------------------------------------------------------------------
\* Properties of the page allocator
\* ------------------------------------------------------------------------

\* The number of times page f is linked in the free lists.
FreeLinks(f) ==
  Cardinality({ cj \in { << c, j >> : c \in CPUs, j \in 1..(kframes + 1) } :
                  cj[2] <= Len(KList(cj[1])) /\ KList(cj[1])[cj[2]] = f })

\* The owners of page f outside the free lists: the callers kalloc returned
\* it to, a kalloc call that has popped it and is about to return it, a
\* kfree call that was passed it and has not pushed it yet.
Owners(f) ==
  kalloced[f]
  + Cardinality({ c \in CPUs :
        kr[c] = f /\ kpc[c] \in {"kalloc_ret", "kfree_acq", "kfree_push"} })

\* C2: every populated page is either allocated to exactly one owner and in
\* no free list, or linked exactly once in exactly one free list; free plus
\* allocated pages are as many as were populated.
C2_PagesConserved ==
  \A f \in Pages : FreeLinks(f) + Owners(f) = IF Populated THEN 1 ELSE 0

\* After a steal the pages are spread over two free lists and a caller.
C2_Witness ==
  \E c, d \in CPUs, f \in Pages :
    /\ c # d
    /\ Len(KList(c)) >= 1 /\ Len(KList(d)) >= 1
    /\ kalloced[f] = 1
    /\ \A e \in CPUs : kpc[e] = "ready"

\* C3: no CPU holds two of the allocator's locks at the same time.
C3_OneShardLockAtATime ==
  \A c \in CPUs : Cardinality({ i \in CPUs : klock[i] = c }) <= 1

\* CPU c spins in acquire() on a lock that CPU d holds.
KWaitsFor(c, d) ==
  /\ c # d
  /\ \/ kpc[c] \in {"fr_acq", "kfree_acq", "kalloc_acq"} /\ klock[c] = d
     \/ kpc[c] = "kalloc_probe" /\ klock[ki[c]] = d

\* CPU d is reached from CPU c in 1..n steps of KWaitsFor.
RECURSIVE KWaitPath(_, _, _)
KWaitPath(c, d, n) ==
  IF n = 0 THEN FALSE
  ELSE \/ KWaitsFor(c, d)
       \/ \E e \in CPUs : KWaitsFor(c, e) /\ KWaitPath(e, d, n - 1)

\* C4: no CPUs wait in a cycle for each other's allocator locks.
C4_NoCircularWait == \A c \in CPUs : ~KWaitPath(c, c, NCPU)

\* C10: with one call at a time, kalloc returns 0 exactly when every free
\* list was empty when it was called, then leaves every list as it was, and
\* never panics; otherwise it returns a page of one of the lists.
C10_NoneIffAllEmpty ==
  /\ ~panicked
  /\ \A c \in CPUs :
       kpc[c] = "kalloc_ret" =>
         /\ (kr[c] = NULL) <=> (\A d \in CPUs : kpre[d] = << >>)
         /\ kr[c] = NULL => \A d \in CPUs : KList(d) = kpre[d]
         /\ kr[c] # NULL =>
              \E d \in CPUs, j \in 1..kframes :
                j <= Len(kpre[d]) /\ kpre[d][j] = kr[c]

\* kalloc returns 0 after every page has been handed out.
C10_Witness ==
  \E c \in CPUs :
    /\ kpc[c] = "kalloc_ret" /\ kr[c] = NULL
    /\ \A f \in Pages : kalloced[f] = 1

\* A kalloc call on CPU c, whose own list was empty, is about to return a
\* page: it has stolen from another list.
Stole(c) == kpc[c] = "kalloc_ret" /\ kpre[c] = << >> /\ kr[c] # NULL

\* C11: a steal from a list of n >= 1 pages f1..fn leaves the donor the
\* first n \div 2 pages in their order; the thief returns the next page and
\* keeps the pages after it, in their order, as its list; no other list
\* changes.  (n = 5: the donor keeps f1, f2, the thief returns f3 and keeps
\* f4, f5; n = 1: the donor is left empty.)
C11_StealSplitsInHalves ==
  \A c \in CPUs :
    Stole(c) =>
      \E d \in CPUs \ {c} :
        LET n == Len(kpre[d])
            h == n \div 2
        IN  /\ n >= 1
            /\ KList(d) = SubSeq(kpre[d], 1, h)
            /\ kr[c] = kpre[d][h + 1]
            /\ KList(c) = SubSeq(kpre[d], h + 2, n)
            /\ \A e \in CPUs \ {c, d} : KList(e) = kpre[e]

\* A steal from a list of 5 pages f1..f5: the donor keeps f1, f2, the thief
\* returns f3 and keeps f4, f5 as its 2 free pages.
C11_Witness ==
  \E c \in CPUs, d \in CPUs :
    /\ Stole(c)
    /\ Len(kpre[d]) = 5
    /\ KList(d) = << kpre[d][1], kpre[d][2] >>
    /\ kr[c] = kpre[d][3]
    /\ KList(c) = << kpre[d][4], kpre[d][5] >>

\* C13: kfree of a page that is already in a free list panics at its check
\* of the argument (line 68) and leaves every free list as it was.
C13_DoubleFreeAborts ==
  [][\A c \in CPUs, pa \in Pages :
       KfreeTwice(c, pa) =>
         panicked' /\ kfreelist' = kfreelist /\ knext' = knext]_vars

\* The kalloc call of CPU c has taken pages from the list of CPU d.
StoleFrom(c, d) == Stole(c) /\ kpre[d] # << >> /\ KList(d) # kpre[d]

\* C17 as stated: the donor is the first CPU after c, in the cyclic order
\* c+1, c+2, ... (mod NCPU), whose list was not empty.
C17_RoundRobinFromNeighbour ==
  \A c \in CPUs :
    Stole(c) =>
      \E k \in 1..(NCPU - 1) :
        /\ StoleFrom(c, (c + k) % NCPU)
        /\ \A j \in 1..(k - 1) : kpre[(c + j) % NCPU] = << >>

\* C17 amended: the donor is the lowest-numbered CPU other than c whose list
\* was not empty.
C17_LowestNumberedDonor ==
  \A c \in CPUs :
    Stole(c) =>
      \E d \in CPUs \ {c} :
        /\ StoleFrom(c, d)
        /\ \A e \in CPUs \ {c} : e < d => kpre[e] = << >>

\* A CPU with a non-empty list on either side steals from the one below it.
C17_Witness ==
  \E c, d, e \in CPUs :
    /\ d < c /\ c < e
    /\ StoleFrom(c, d)
    /\ kpre[e] # << >> /\ KList(e) = kpre[e]

\* Buf s has reference count 0 after function f dropped it to 0.
DroppedBy(s, f) == refcnt[s] = 0 /\ dropped[s].by = f

\* C18 as stated: an unreferenced buf that was acquired before carries the
\* clock value of the moment its reference count dropped to 0, whether brelse
\* or bunpin dropped it.
C18_StampedAtLastDrop ==
  \A s \in Slots :
    (DroppedBy(s, "brelse") \/ DroppedBy(s, "bunpin")) =>
      tick[s] = dropped[s].at

\* Buf s is linked in the chain of bucket k.
InChain(s, k) ==
  head[k] # NULL /\ \E j \in DOMAIN Chain(k) : Chain(k)[j] = s

\* C18 amended: after a drop to 0 by brelse the buf carries the clock value
\* of that moment; a drop to 0 by bunpin leaves the timestamp as it was; and
\* the buf an eviction recycles has the smallest timestamp among the bufs
\* with reference count 0 of the bucket it is taken from.
C18_StampedAtDropByBrelse ==
  /\ [](\A s \in Slots :
          /\ DroppedBy(s, "brelse") => tick[s] = dropped[s].at
          /\ DroppedBy(s, "bunpin") => tick[s] = dropped[s].was)
  /\ [][\A s \in Slots, k \in Buckets :
          (Recycled(s) /\ InChain(s, k)) =>
            \A o \in Unreferenced :
              InChain(o, k) => ~ULess(tick[o], tick[s])]_vars

\* One buf was dropped to 0 by bunpin and carries an older timestamp, another
\* was dropped by brelse after the clock had advanced.
C18_Witness ==
  \E s, t \in Slots :
    /\ DroppedBy(s, "bunpin") /\ tick[s] # dropped[s].at
    /\ DroppedBy(t, "brelse") /\ dropped[t].at # dropped[t].was

\* brelse, bpin or bunpin of caller p is inside its critical section.
InRefSection(p) == pc[p] \in {"brelse_dec", "bpin_inc", "bunpin_dec"}

\* C19: while the lock of bucket k is free, every buf in the chain of k has
\* an identity that hashes to k; and brelse, bpin and bunpin, which compute
\* the bucket from the identity of their buf, hold the lock of the bucket
\* whose chain the buf is in.
C19_ChainsMatchHash ==
  /\ \A k \in Buckets :
       (lock[k] = NoProc /\ head[k] # NULL) =>
         \A j \in DOMAIN Chain(k) :
           HASH(dev[Chain(k)[j]], blockno[Chain(k)[j]]) = k
  /\ \A p \in Procs :
       InRefSection(p) =>
         lock[bucket[p]] = p /\ InChain(b[p], bucket[p])

\* brelse is in its critical section on a buf that an eviction has moved to
\* another bucket than bucket 0, whose chain still holds a buf.
C19_Witness ==
  \E p \in Procs :
    /\ pc[p] = "brelse_dec"
    /\ bucket[p] # 0
    /\ InChain(b[p], bucket[p])
    /\ head[0] # NULL /\ lock[0] = NoProc

\* Caller q has buf s from bget: it is in bread or has returned from it and
\* has not called brelse yet.
GotFromBget(q, s) == (pc[q] = "bread" /\ b[q] = s) \/ held[q] = s

\* C20 as stated: a buf whose sleeplock is held has a reference count of at
\* least 1, and the acquiresleep that ends the eviction path (line 156) never
\* finds the sleeplock held.
C20_EvictionNeverBlocks ==
  /\ \A s \in Slots : slock[s] # NoProc => refcnt[s] # 0
  /\ \A p \in Procs : pc[p] = "bget_esleep" => slock[b[p]] = NoProc

\* C20 amended: a buf whose sleeplock is held has a reference count of at
\* least 1; the sleeplock of a victim is free until the evicting caller has
\* released the lock of the bucket that holds the recycled buf (line 154);
\* from then on, with hlock still held (before line 155) or at acquiresleep
\* (line 156), the sleeplock is held only by another caller that has got the
\* recycled buf from bget, the reference count being at least 2.
C20_VictimFreeUntilPublished ==
  /\ \A s \in Slots : slock[s] # NoProc => refcnt[s] # 0
  /\ \A p \in Procs :
       pc[p] \in {"bget_macq", "bget_link"} => slock[b[p]] = NoProc
  /\ \A p \in Procs :
       (pc[p] \in {"bget_hrel", "bget_esleep"} /\ slock[b[p]] # NoProc) =>
         /\ slock[b[p]] # p
         /\ GotFromBget(slock[b[p]], b[p])
         /\ ~ULess(refcnt[b[p]], 2)

\* The evicting caller stands at acquiresleep and another caller, which found
\* the recycled buf by its new identity, holds the sleeplock.
C20_Witness ==
  \E p, q \in Procs :
    /\ p # q
    /\ pc[p] = "bget_esleep"
    /\ slock[b[p]] = q
    /\ GotFromBget(q, b[p])
    /\ ~ENABLED BgetEvictSleep(p)

=============================================================================
